---- MODULE Spec2Model ----
(***************************************************************************)
(* wybiral/onions: vanity onion search.  The model follows main, Search,   *)
(* the two key formats and the dictionary readers of the Go program.       *)
(* Strings whose characters matter (dictionary bodies, words, identifiers, *)
(* the --key value) are sequences of one-character strings; file names     *)
(* and URLs are plain strings.                                             *)
(***************************************************************************)
EXTENDS Integers, Sequences, FiniteSets, TLC

\* ------------------------------------------------------------------ bounds

\* runtime.NumCPU(): the number of Search goroutines main starts.
NumCPU == 2
\* Size of the key space the random generators draw from.
NumKeys == 2
\* Length of a modelled identifier (16 or 56 characters in the program).
IdLen == 2
\* Total number of candidate keys the workers generate in one run.
MaxCandidates == 4

\* ------------------------------------------------------- program constants

\* flag.IntVar(&minSize, "min", 4, ...)
DefaultMin == 4
\* sha512.Sum512 yields 64 bytes.
HashSize == 64

Workers == 1..NumCPU
Keys == 0..(NumKeys - 1)
Bytes == 0..255

\* A nil key (nil *rsa.PrivateKey, nil ed25519.PrivateKey / PublicKey).
NilKey == 0 - 1
\* Outcome of a generator call whose random source failed.
GenError == 0 - 2

\* ------------------------------------------------------------ package strings

UpperLetters == <<"A", "B", "D", "E", "R", "S">>
LowerLetters == <<"a", "b", "d", "e", "r", "s">>

ToUpperCh(c) ==
    IF \E i \in DOMAIN LowerLetters : LowerLetters[i] = c
    THEN UpperLetters[CHOOSE i \in DOMAIN LowerLetters : LowerLetters[i] = c]
    ELSE c

ToLowerCh(c) ==
    IF \E i \in DOMAIN UpperLetters : UpperLetters[i] = c
    THEN LowerLetters[CHOOSE i \in DOMAIN UpperLetters : UpperLetters[i] = c]
    ELSE c

ToUpper(s) == [i \in DOMAIN s |-> ToUpperCh(s[i])]

ToLower(s) == [i \in DOMAIN s |-> ToLowerCh(s[i])]

\* strings.HasPrefix(s, prefix): len(s) >= len(prefix) && s[:len(prefix)] == prefix
HasPrefix(s, prefix) ==
    /\ Len(s) >= Len(prefix)
    /\ \A i \in 1..Len(prefix) : s[i] = prefix[i]

IsSpace(c) == c \in {" ", "\n", "\t", "\r"}

\* strings.Fields: the maximal runs of non-space characters, in order.
RECURSIVE FieldsFrom(_, _, _, _)
FieldsFrom(body, i, cur, acc) ==
    IF i > Len(body)
    THEN IF cur = <<>> THEN acc ELSE Append(acc, cur)
    ELSE IF IsSpace(body[i])
         THEN FieldsFrom(body, i + 1, <<>>, IF cur = <<>> THEN acc ELSE Append(acc, cur))
         ELSE FieldsFrom(body, i + 1, Append(cur, body[i]), acc)

Fields(body) == FieldsFrom(body, 1, <<>>, <<>>)

\* --------------------------------------------------------------- environment

\* ioutil.ReadFile: the content of the file, or an error and no bytes.
ReadFile(path) ==
    IF path = "words.txt"
    THEN [data |-> <<"a", " ", " ", "a", "B", "\n", "a", "\n">>, err |-> FALSE]
    ELSE [data |-> <<>>, err |-> TRUE]

\* http.Get followed by ioutil.ReadAll(res.Body): a nil response on error.
HttpGet(url) ==
    IF url = "http://dict"
    THEN [res |-> TRUE, body |-> <<"b", "a", "\n", "a", "b", "a">>]
    ELSE [res |-> FALSE, body |-> <<>>]

DictFiles == {"", "words.txt", "missing.txt"}
DictUrls == {"", "http://dict", "http://down"}
MinSizes == {1, 2, DefaultMin}
KeyTypes == { <<"r", "s", "a">>,
              <<"E", "D", "2", "5", "5", "1", "9">>,
              <<"d", "s", "a">> }

\* ---------------------------------------------------------------- key formats

IdAlphabet == <<"A", "B">>

\* base32.StdEncoding.EncodeToString of a digest: IdLen characters of the
\* identifier alphabet, determined by the digest n.
RECURSIVE Base32Digits(_, _)
Base32Digits(n, len) ==
    IF len = 0 THEN <<>>
    ELSE Append(Base32Digits(n \div Len(IdAlphabet), len - 1),
                IdAlphabet[(n % Len(IdAlphabet)) + 1])

Base32Id(n) == Base32Digits(n, IdLen)

\* The zero Result (a variable that holds no result yet).
NoResult == [kind |-> "none", onion |-> <<>>, privateKey |-> NilKey]

\* Variant of randRsaResult that pairs the identifier of one key with another
\* key (a stale key variable); C2 must tell it apart.
C2_RsaResultOfTwoKeys(out) ==
    IF out = GenError
    THEN [kind |-> "panic", onion |-> <<>>, privateKey |-> NilKey]
    ELSE [kind |-> "rsa", onion |-> Base32Id(out), privateKey |-> (out + 1) % NumKeys]

\* randRsaResult: key, _ := rsa.GenerateKey(...); key.PublicKey dereferences
\* key, which is nil when generation failed.
randRsaResult(out) ==
    IF out = GenError
    THEN [kind |-> "panic", onion |-> <<>>, privateKey |-> NilKey]
    ELSE [kind |-> "rsa", onion |-> Base32Id(out), privateKey |-> out]

\* ed25519ToOnion: base32(pub || checkdigits || 0x03); with a nil pub the
\* encoded bytes are the two check digits and the version byte only.
NilOnion == <<"A", "=">>

ed25519ToOnion(pub) == IF pub = NilKey THEN NilOnion ELSE Base32Id(pub + 1)

\* randEd25519Result: pub, pri, _ := ed25519.GenerateKey(...); both are nil
\* when generation failed, and the result is built all the same.
randEd25519Result(out) ==
    IF out = GenError
    THEN [kind |-> "ed25519", onion |-> ed25519ToOnion(NilKey), privateKey |-> NilKey]
    ELSE [kind |-> "ed25519", onion |-> ed25519ToOnion(out), privateKey |-> out]

CallKeyFunc(f, out) ==
    IF f = "randEd25519Result" THEN randEd25519Result(out) ELSE randRsaResult(out)

\* (*rsaResult).PrivateKey: "RSA1024:" + base64(PKCS#1 DER of the key); the
\* encoding is one-to-one, so the key itself stands for its encoding.
rsaPrivateKey(r) == [tag |-> "RSA1024:", b64 |-> <<r.privateKey>>]

\* Bitwise AND and OR of two bytes.
RECURSIVE BitAnd(_, _)
BitAnd(a, b) ==
    IF a = 0 \/ b = 0 THEN 0
    ELSE (IF a % 2 = 1 /\ b % 2 = 1 THEN 1 ELSE 0) + 2 * BitAnd(a \div 2, b \div 2)

RECURSIVE BitOr(_, _)
BitOr(a, b) ==
    IF a = 0 THEN b
    ELSE IF b = 0 THEN a
    ELSE (IF a % 2 = 1 \/ b % 2 = 1 THEN 1 ELSE 0) + 2 * BitOr(a \div 2, b \div 2)

\* Variant of Clamp that omits h[31] |= 64; C9 must tell it apart.
C9_ClampWithoutSetBit(hash) ==
    [i \in DOMAIN hash |->
        IF i = 0 THEN BitAnd(hash[i], 248)
        ELSE IF i = 31 THEN BitAnd(hash[i], 127)
        ELSE hash[i]]

\* (*ed25519Result).PrivateKey, lines 78-80: h[0] &= 248; h[31] &= 127; h[31] |= 64
Clamp(hash) ==
    [i \in DOMAIN hash |->
        IF i = 0 THEN BitAnd(hash[i], 248)
        ELSE IF i = 31 THEN BitOr(BitAnd(hash[i], 127), 64)
        ELSE hash[i]]

\* sha512.Sum512(seed): a fixed table of 64 bytes per seed stands for the hash.
Sha512(seed) == [i \in 0..(HashSize - 1) |-> (seed * 97 + i * 31 + 5) % 256]

\* (*ed25519Result).PrivateKey, lines 77-83, given h = sha512.Sum512(seed).
ed25519Export(hash) == [tag |-> "ED25519-V3:", b64 |-> Clamp(hash)]

\* (*ed25519Result).PrivateKey: r.privateKey[:32] panics on a nil key.
ed25519PrivateKey(r) ==
    IF r.privateKey = NilKey
    THEN [tag |-> "panic", b64 |-> <<>>]
    ELSE ed25519Export(Sha512(r.privateKey))

\* Result.PrivateKey(), dispatched on the dynamic type of the result.
PrivateKey(r) == IF r.kind = "ed25519" THEN ed25519PrivateKey(r) ELSE rsaPrivateKey(r)

\* ------------------------------------------------------------------- state

VARIABLES
    keyType,    \* main: --key
    minSize,    \* main: --min
    dictFile,   \* main: --file
    dictUrl,    \* main: --url
    keyFunc,    \* main: the selected generator
    words,      \* main: the loaded, then filtered, dictionary
    source,     \* which reader main called: "none", "file" or "url"
    mainPc,     \* main's position
    fault,      \* the panic that ended the process, "" while there is none
    results,    \* the results channel: the sends not yet received, in order
    r,          \* main: the loop variable of `for r := range results`
    search,     \* per Search goroutine: position, candidate, word index
    stdout,     \* the lines printed so far
    keysDir,    \* the files of ./keys: name -> content
    nCand,      \* candidates generated so far
    nSent,      \* sends executed so far (results <- r)
    nRecv,      \* values main has received so far
    nDone,      \* loop bodies main has completed so far
    h,          \* a SHA-512 output handed to the modern export
    exported    \* the export computed from h

mainVars == <<keyType, minSize, dictFile, dictUrl, keyFunc, words, source, mainPc,
              fault, results, r, search, stdout, keysDir, nCand, nSent, nRecv, nDone>>

vars == <<mainVars, h, exported>>

Line(kind, n, text) == [kind |-> kind, n |-> n, text |-> text]

Idle == [pc |-> "idle", r |-> NoResult, word |-> 0, sent |-> 0]
LoopTop == [pc |-> "gen", r |-> NoResult, word |-> 0, sent |-> 0]

NoExport == [tag |-> "", b64 |-> <<>>]

\* ------------------------------------------------------------------ helpers

\* readDictFile: the error of ReadFile is dropped, the bytes are split.
readDictFile(path) == [panic |-> FALSE, words |-> Fields(ReadFile(path).data)]

\* readDictUrl: the error of http.Get is dropped and res.Body is read; res is
\* nil when the request failed.
readDictUrl(url) ==
    IF HttpGet(url).res
    THEN [panic |-> FALSE, words |-> Fields(HttpGet(url).body)]
    ELSE [panic |-> TRUE, words |-> <<>>]

\* Variant of NoDictionary with || for &&; C7 must tell it apart.
C7_ExactlyOneRequired(file, url) == file = "" \/ url = ""

\* main, line 162: len(dictFile) == 0 && len(dictUrl) == 0
NoDictionary(file, url) == file = "" /\ url = ""

\* Variant of Filter that drops the length test; C5 must tell it apart.
C5_FilterWithoutMinimum(ws, min) == [i \in DOMAIN ws |-> ToUpper(ws[i])]

\* main, lines 175-181: keep the words of at least minSize, uppercased.
Filter(ws, min) ==
    LET kept == SelectSeq(ws, LAMBDA word : Len(word) >= min)
    IN  [i \in DOMAIN kept |-> ToUpper(kept[i])]

\* Variant of FirstMatch with the arguments of HasPrefix swapped; C1 must tell
\* it apart.
RECURSIVE C1_FirstWordExtendingOnion(_, _, _)
C1_FirstWordExtendingOnion(onion, ws, from) ==
    IF from > Len(ws) THEN 0
    ELSE IF HasPrefix(ws[from], onion) THEN from
    ELSE C1_FirstWordExtendingOnion(onion, ws, from + 1)

\* Search, lines 110-111: the index of the first word from `from` on that is a
\* prefix of onion, 0 when the range ends without one.
RECURSIVE FirstMatch(_, _, _)
FirstMatch(onion, ws, from) ==
    IF from > Len(ws) THEN 0
    ELSE IF HasPrefix(onion, ws[from]) THEN from
    ELSE FirstMatch(onion, ws, from + 1)

\* Variant of AfterSend without the break: the word loop goes on after the
\* send; C3 must tell it apart.
C3_ContinueAfterSend(onion, ws, i) == FirstMatch(onion, ws, i + 1)

\* Search, line 113: `break` after the send; the word loop is left, so no later
\* word is tried (0: back to the top of the outer loop).
AfterSend(onion, ws, i) == 0

\* Variant of ChanSend for a send that does not wait for the receiver (a
\* buffered channel); C6 must tell it apart.
C6_SendWithoutWaiting == "gen"

\* Search, line 112 on the unbuffered channel of line 187: the sender stays at
\* the send until a receiver takes the value.
ChanSend == "send"

Alive == fault = ""

Started == mainPc \in {"recv", "handle"}

\* -------------------------------------------------------------------- Init

Init ==
    /\ keyType \in KeyTypes
    /\ minSize \in MinSizes
    /\ dictFile \in DictFiles
    /\ dictUrl \in DictUrls
    /\ keyFunc = "nil"
    /\ words = <<>>
    /\ source = "none"
    /\ mainPc = "flags"
    /\ fault = ""
    /\ results = <<>>
    /\ r = NoResult
    /\ search = [w \in Workers |-> Idle]
    /\ stdout = {}
    /\ keysDir = <<>>
    /\ nCand = 0
    /\ nSent = 0
    /\ nRecv = 0
    /\ nDone = 0
    /\ h = Sha512(0)
    /\ exported = NoExport

\* ------------------------------------------------------------------- main

\* main, lines 153-160: lower-case the key type and select the generator.
SelectKeyFunc ==
    /\ Alive
    /\ mainPc = "flags"
    /\ keyType' = ToLower(keyType)
    /\ IF keyType' = <<"e", "d", "2", "5", "5", "1", "9">>
       THEN keyFunc' = "randEd25519Result" /\ mainPc' = "load" /\ stdout' = stdout
       ELSE IF keyType' = <<"r", "s", "a">>
       THEN keyFunc' = "randRsaResult" /\ mainPc' = "load" /\ stdout' = stdout
       ELSE /\ keyFunc' = keyFunc
            /\ mainPc' = "fatal"
            /\ stdout' = stdout \cup {Line("Unrecognized key type: ", 0, keyType')}
    /\ UNCHANGED <<minSize, dictFile, dictUrl, words, source, fault, results, r, search,
                   keysDir, nCand, nSent, nRecv, nDone, h, exported>>

\* main, lines 162-172: the usage exit, or the load from the file or the URL.
LoadDictionary ==
    /\ Alive
    /\ mainPc = "load"
    /\ IF NoDictionary(dictFile, dictUrl)
       THEN /\ stdout' = stdout \cup {Line("No dictionary supplied. See --help for usage.", 0, <<>>)}
            /\ mainPc' = "exited"
            /\ UNCHANGED <<words, source, fault>>
       ELSE /\ stdout' = stdout \cup {Line("Loading dictionary... ", 0, <<>>)}
            /\ LET got == IF dictFile /= "" THEN readDictFile(dictFile)
                          ELSE readDictUrl(dictUrl)
               IN  /\ source' = IF dictFile /= "" THEN "file" ELSE "url"
                   /\ words' = got.words
                   /\ fault' = IF got.panic THEN "readDictUrl: nil res" ELSE fault
                   /\ mainPc' = IF got.panic THEN mainPc ELSE "filter"
    /\ UNCHANGED <<keyType, minSize, dictFile, dictUrl, keyFunc, results, r, search,
                   keysDir, nCand, nSent, nRecv, nDone, h, exported>>

\* main, lines 174-192: filter, report the count, start the goroutines.
StartSearch ==
    /\ Alive
    /\ mainPc = "filter"
    /\ words' = Filter(words, minSize)
    /\ stdout' = stdout \cup {Line("words found.", Len(words'), <<>>),
                              Line("Searching...", 0, <<>>)}
    /\ search' = [w \in Workers |-> LoopTop]
    /\ mainPc' = "recv"
    /\ UNCHANGED <<keyType, minSize, dictFile, dictUrl, keyFunc, source, fault, results, r,
                   keysDir, nCand, nSent, nRecv, nDone, h, exported>>

\* main, line 194: receive the oldest pending send; the sender resumes after
\* its send statement.
Receive ==
    /\ Alive
    /\ mainPc = "recv"
    /\ results /= <<>>
    /\ LET m == Head(results)
           w == m.from
           j == AfterSend(search[w].r.onion, words, search[w].word)
       IN  /\ r' = m.val
           /\ IF search[w].pc /= "send"
              THEN /\ results' = Tail(results)
                   /\ UNCHANGED <<search, nSent>>
              ELSE IF j = 0
              THEN /\ results' = Tail(results)
                   /\ search' = [search EXCEPT ![w] = LoopTop]
                   /\ nSent' = nSent
              ELSE /\ results' = Append(Tail(results), [from |-> w, val |-> search[w].r])
                   /\ search' = [search EXCEPT ![w] = [pc |-> ChanSend, r |-> @.r,
                                                       word |-> j, sent |-> @.sent + 1]]
                   /\ nSent' = nSent + 1
    /\ mainPc' = "handle"
    /\ nRecv' = nRecv + 1
    /\ UNCHANGED <<keyType, minSize, dictFile, dictUrl, keyFunc, words, source, fault,
                   stdout, keysDir, nCand, nDone, h, exported>>

\* main, lines 195-200: print the lower-case identifier, create the file named
\* after it, write the private key and sync.  os.Create may fail: f is then
\* nil, and WriteString and Sync return an error that is dropped.
Handle ==
    /\ Alive
    /\ mainPc = "handle"
    /\ LET onion == ToLower(r.onion)
           privateKey == PrivateKey(r)
       IN  IF privateKey.tag = "panic"
           THEN /\ fault' = "PrivateKey: nil key"
                /\ UNCHANGED <<mainPc, stdout, keysDir, nDone>>
           ELSE /\ stdout' = stdout \cup {Line("onion", 0, onion)}
                /\ \E created \in BOOLEAN :
                     keysDir' = IF created
                                THEN (onion :> privateKey) @@ keysDir
                                ELSE keysDir
                /\ mainPc' = "recv"
                /\ nDone' = nDone + 1
                /\ fault' = fault
    /\ UNCHANGED <<keyType, minSize, dictFile, dictUrl, keyFunc, words, source, results, r,
                   search, nCand, nSent, nRecv, h, exported>>

\* ------------------------------------------------------------------ Search

\* Search, lines 107-115: one pass of the outer loop up to the send.
Generate(w) ==
    /\ Alive
    /\ Started
    /\ search[w].pc = "gen"
    /\ nCand < MaxCandidates
    /\ nCand' = nCand + 1
    /\ \E out \in Keys \cup {GenError} :
         LET res == CallKeyFunc(keyFunc, out)
             i == FirstMatch(res.onion, words, 1)
         IN  IF res.kind = "panic"
             THEN /\ fault' = "randRsaResult: nil key"
                  /\ UNCHANGED <<results, search, nSent>>
             ELSE IF i = 0
             THEN UNCHANGED <<fault, results, search, nSent>>
             ELSE /\ results' = Append(results, [from |-> w, val |-> res])
                  /\ search' = [search EXCEPT ![w] = [pc |-> ChanSend, r |-> res,
                                                      word |-> i, sent |-> 1]]
                  /\ nSent' = nSent + 1
                  /\ fault' = fault
    /\ UNCHANGED <<keyType, minSize, dictFile, dictUrl, keyFunc, words, source, mainPc, r,
                   stdout, keysDir, nRecv, nDone, h, exported>>

Next ==
    \/ SelectKeyFunc
    \/ LoadDictionary
    \/ StartSearch
    \/ Receive
    \/ Handle
    \/ \E w \in Workers : Generate(w)

Spec == Init /\ [][Next]_vars

\* --------------------------------------------------- the modern export alone

\* Every SHA-512 output as far as the export reads it: bytes 0 and 31 take
\* every value, the other bytes are those of a fixed hash.
ClampInit ==
    /\ h \in { [i \in 0..(HashSize - 1) |->
                  IF i = 0 THEN a ELSE IF i = 31 THEN b ELSE Sha512(0)[i]] :
               a \in Bytes, b \in Bytes }
    /\ exported = NoExport
    /\ keyType = <<"E", "D", "2", "5", "5", "1", "9">>
    /\ minSize = DefaultMin
    /\ dictFile = ""
    /\ dictUrl = ""
    /\ keyFunc = "nil"
    /\ words = <<>>
    /\ source = "none"
    /\ mainPc = "flags"
    /\ fault = ""
    /\ results = <<>>
    /\ r = NoResult
    /\ search = [w \in Workers |-> Idle]
    /\ stdout = {}
    /\ keysDir = <<>>
    /\ nCand = 0
    /\ nSent = 0
    /\ nRecv = 0
    /\ nDone = 0

\* (*ed25519Result).PrivateKey applied to the hash h.
ExportKey ==
    /\ exported = NoExport
    /\ exported' = ed25519Export(h)
    /\ UNCHANGED <<mainVars, h>>

ClampNext == ExportKey

ClampSpec == ClampInit /\ [][ClampNext]_vars

\* ------------------------------------------------------------------ claims

\* The words of ws that id starts with, by comparing leading segments.
WordsLeading(id, ws) ==
    {i \in DOMAIN ws : \E n \in 0..Len(id) : SubSeq(id, 1, n) = ws[i]}

\* The entries of the results channel sent by worker w.
Pending(w) == {i \in DOMAIN results : results[i].from = w}

\* The raw words the reader main calls yields for the given flags.
LoadedWords ==
    IF dictFile /= "" THEN Fields(ReadFile(dictFile).data)
    ELSE Fields(HttpGet(dictUrl).body)

OnionLines == {l \in stdout : l.kind = "onion"}

\* C1: every Match on the results queue, and the one main has received, has an
\* Identifier whose uppercase form starts with a word of the filtered
\* dictionary; a candidate with no dictionary word as a prefix is never enqueued.
C1_EnqueuedHasDictionaryPrefix ==
    /\ \A i \in DOMAIN results :
         WordsLeading(ToUpper(results[i].val.onion), words) /= {}
    /\ nRecv > 0 => WordsLeading(ToUpper(r.onion), words) /= {}

\* C1 witness: every worker has a Match on the queue while the dictionary also
\* holds a word that is not a prefix of the first one.
C1_Witness ==
    /\ Len(results) = NumCPU
    /\ \E i \in DOMAIN words : i \notin WordsLeading(results[1].val.onion, words)

\* C2: the name of every key file, the line printed for it and the content
\* written into it come from one KeyPair: the name is the lower-case Identifier
\* of the key whose tagged export is the content, in the selected format.
C2_NameAndKeyFromOneKeyPair ==
    \A name \in DOMAIN keysDir :
      /\ Line("onion", 0, name) \in stdout
      /\ \E k \in Keys :
           \/ /\ keyFunc = "randRsaResult"
              /\ name = ToLower(Base32Id(k))
              /\ keysDir[name] = [tag |-> "RSA1024:", b64 |-> <<k>>]
           \/ /\ keyFunc = "randEd25519Result"
              /\ name = ToLower(ed25519ToOnion(k))
              /\ keysDir[name] = [tag |-> "ED25519-V3:", b64 |-> Clamp(Sha512(k))]

\* C2 witness: two key files have been written while another Match of another
\* worker is waiting on the queue.
C2_Witness ==
    /\ Cardinality(DOMAIN keysDir) >= 2
    /\ results /= <<>>

\* C3: a candidate is sent at most once, at the first word that is a prefix of
\* its Identifier, and a worker whose Match was taken is back at the top of its
\* loop with no candidate.
C3_SentOnceAtFirstMatch ==
    \A w \in Workers :
      /\ search[w].sent <= 1
      /\ Cardinality(Pending(w)) <= 1
      /\ search[w].pc = "send" =>
           /\ search[w].word \in WordsLeading(search[w].r.onion, words)
           /\ \A j \in WordsLeading(search[w].r.onion, words) : search[w].word <= j
      /\ search[w].pc = "gen" => search[w].r = NoResult /\ Pending(w) = {}

\* C3 witness: main has received a candidate that several dictionary words are
\* prefixes of, and no worker has anything left on the queue.
C3_Witness ==
    /\ mainPc = "handle"
    /\ Cardinality(WordsLeading(r.onion, words)) >= 2
    /\ results = <<>>
    /\ \A w \in Workers : search[w].pc = "gen"

\* C4: a failed key generation is dropped and the loop goes on: the process
\* does not panic on it, and no Match with a nil key is enqueued or received.
C4_GenerationFailureIsRetried ==
    /\ fault \notin {"randRsaResult: nil key", "PrivateKey: nil key"}
    /\ \A i \in DOMAIN results : results[i].val.privateKey /= NilKey
    /\ nRecv > 0 => r.privateKey /= NilKey

\* C5: when minSize exceeds the length of every loaded word, the filtered
\* dictionary is empty and the started workers never send: the queue stays
\* empty, nothing is received, no identifier is printed, no key file exists.
C5_EmptyDictionaryNoMatch ==
    (Started /\ \A i \in DOMAIN LoadedWords : Len(LoadedWords[i]) < minSize) =>
      /\ words = <<>>
      /\ results = <<>>
      /\ nSent = 0
      /\ nRecv = 0
      /\ OnionLines = {}
      /\ DOMAIN keysDir = {}

\* C5 witness: words were loaded, all shorter than minSize, and the workers
\* have generated every candidate of the run.
C5_Witness ==
    /\ Started
    /\ LoadedWords /= <<>>
    /\ \A i \in DOMAIN LoadedWords : Len(LoadedWords[i]) < minSize
    /\ nCand = MaxCandidates

\* C6: a worker is at its send exactly while one Match of its own is on the
\* queue (never more than one, and never while it generates); every Match sent
\* is on the queue or was received once; main receives only between loop
\* bodies, so at most one received Match is not yet written.
C6_OneUndeliveredPerWorker ==
    /\ \A w \in Workers :
         /\ Cardinality(Pending(w)) <= 1
         /\ (Pending(w) /= {}) <=> (search[w].pc = "send")
         /\ \A i \in Pending(w) : results[i].val = search[w].r
    /\ nSent = nRecv + Len(results)
    /\ nDone <= nRecv
    /\ nRecv <= nDone + 1
    /\ mainPc = "recv" => nRecv = nDone

\* C6 witness: every worker is suspended at its send while main is still
\* handling a Match it received earlier, after having written one before.
C6_Witness ==
    /\ mainPc = "handle"
    /\ nDone >= 1
    /\ \A w \in Workers : search[w].pc = "send"

C8_LoadFailureYieldsNoWords ==
    (\/ dictFile /= "" /\ ReadFile(dictFile).err
     \/ dictFile = "" /\ dictUrl /= "" /\ ~HttpGet(dictUrl).res) =>
      /\ fault /= "readDictUrl: nil res"
      /\ Started =>
           /\ words = <<>>
           /\ Line("words found.", 0, <<>>) \in stdout
           /\ nSent = 0

\* C9: the exported scalar has the lowest 3 bits of byte 0 clear, the top bit
\* of byte 31 clear and its second-top bit set, the other bits and bytes being
\* those of the hash.
C9_ScalarClamped ==
    exported /= NoExport =>
      /\ exported.tag = "ED25519-V3:"
      /\ exported.b64[0] % 8 = 0
      /\ exported.b64[0] = h[0] - (h[0] % 8)
      /\ exported.b64[31] < 128
      /\ (exported.b64[31] \div 64) % 2 = 1
      /\ exported.b64[31] = 64 + (h[31] % 64)
      /\ \A i \in (DOMAIN h) \ {0, 31} : exported.b64[i] = h[i]

\* C9 witness: an export of a hash whose byte 0 has its 3 low bits set and
\* whose byte 31 has the top bit set and the second-top bit clear.
C9_Witness ==
    /\ exported /= NoExport
    /\ h[0] % 8 = 7
    /\ h[31] >= 128
    /\ (h[31] \div 64) % 2 = 0

\* C10: once the workers are started the process never reaches a terminal
\* state: it is never ended by a panic.
C10_NeverEndsOnceStarted ==
    Started => Alive

====
